---- MODULE Spec2Model ----
(***************************************************************************)
(* Booking / Payment lifecycle of the travel-booking backend               *)
(* (alx_travel_app/listings/views.py).                                     *)
(*                                                                         *)
(* The database rows (Booking, Payment) are the state.  Every HTTP handler *)
(* of BookingViewSet / PaymentViewSet that touches the lifecycle is one    *)
(* action; the two verification handlers are split at their only           *)
(* suspension point, the blocking call to the payment gateway, so that two *)
(* requests on the same Payment can interleave as they do between two web  *)
(* workers.  The gateway, the ORM helpers of chapa_utils, the serializers  *)
(* and the models are not part of the sources at hand; they are modelled   *)
(* from the specification.                                                 *)
(***************************************************************************)
EXTENDS Integers, Sequences, FiniteSets, TLC

(* ----------------------------- bounds --------------------------------- *)
\* number of Booking rows the database may hold
MaxBookings == 1
\* dates are the days 1..MaxDay
MaxDay == 3
\* number of HTTP requests served in one behaviour
MaxOps == 4
\* nightly price of the only listing (sample data)
BasePrice == 100
MaxCalls == 3

(* ------------------------------ values -------------------------------- *)
None == "none"
Users == {"alice", "bob", "carol"}
\* the users who book in the sample data
Guests == {"alice"}
\* the listing of the sample data and its host
ListingIds == {"L1"}
UnknownListing == "L9"
ListingHost(l) == "bob"
PricePerNight(l) == BasePrice
BookingIds == 1..MaxBookings
Dates == 1..MaxDay
\* web workers serving verification requests concurrently
Workers == {"w1", "w2"}
\* an optional total_price of the request: << >> when the field is absent
SuppliedPrices == {<< >>, <<0>>, <<250>>}
\* references handed out by the gateway
CheckoutRefs == {"CK1"}
CheckoutUrls == {"checkout/1"}
\* the references of two checkouts handed out for one payment
ReissuedRefs == {"CK1", "CK2"}
TxRefs == {"TX1", "TX2"}
Methods == {"card"}
DefaultCurrency == "ETB"

NoBooking ==
    [exists |-> FALSE, guest |-> None, listing |-> None, check_in_date |-> 0,
     check_out_date |-> 0, total_price |-> 0, status |-> None]

NoPayment ==
    [exists |-> FALSE, amount |-> 0, currency |-> None, status |-> None,
     chapa_reference |-> None, transaction_id |-> None,
     payment_method |-> None, error_message |-> None]

\* the notification tasks of tasks.py and a task not handed to the queue yet
TaskNames ==
    {"send_booking_confirmation_email_task", "send_payment_confirmation_email_task",
     "send_payment_failure_email_task"}

NoTask == [state |-> "none", retries |-> 0, attempts |-> 0, countdowns |-> << >>]

\* @shared_task(bind=True, max_retries=3)
MaxRetries == 3

IdleRequest ==
    [pc |-> "idle", op |-> None, b |-> 0, payment |-> NoPayment]

\* the payload of a response: the fields initiate_payment returns
NoData ==
    [checkout_url |-> None, payment_id |-> 0, amount |-> 0, currency |-> None,
     transaction_id |-> None, error |-> None]

\* gateway: whether the request called the payment gateway before it returned
NoResponse ==
    [op |-> None, b |-> 0, http |-> 0, body |-> None, gateway |-> FALSE,
     data |-> NoData]

VARIABLES
    bookings,    \* Booking rows, by booking id
    payments,    \* Payment rows, by the id of the owning booking (one-to-one)
    req,         \* verification requests in flight, by worker
    delayed,     \* per booking: calls of <task>.delay made so far, by task
    saves,       \* per booking: terminal statuses written by verifications so far
    nops,        \* requests served so far
    last,        \* the response of the request that returned last
    payment_rows, \* per booking: Payment rows the database holds for it
    tasks,       \* the notification tasks handed to the queue, by task name
    mail         \* the calls of the synchronous senders, by sender name

vars == <<bookings, payments, req, delayed, saves, nops, last, payment_rows, tasks, mail>>

(* ------------------ helpers modelled from the spec -------------------- *)

\* a validation that lets a stay of no night through
ValidateDatesAllowsSameDay(check_in, check_out) == check_out >= check_in

\* BookingSerializer validation: check_out_date must be after check_in_date
ValidateDates(check_in, check_out) == check_out > check_in

\* chapa_utils.create_payment_for_booking: a pending Payment for the booking
CreatePaymentForBooking(bk) ==
    [exists |-> TRUE, amount |-> bk.total_price, currency |-> DefaultCurrency,
     status |-> "pending", chapa_reference |-> None, transaction_id |-> None,
     payment_method |-> None, error_message |-> None]

\* chapa_utils.update_payment_status: sets the status and every optional
\* field that is given on the instance; the instance is then saved whole
UpdatePaymentStatus(p, new_status, transaction_id, chapa_reference, payment_method, error_message) ==
    [p EXCEPT
        !.status = new_status,
        !.transaction_id = IF transaction_id # None THEN transaction_id ELSE @,
        !.chapa_reference = IF chapa_reference # None THEN chapa_reference ELSE @,
        !.payment_method = IF payment_method # None THEN payment_method ELSE @,
        !.error_message = IF error_message # None THEN error_message ELSE @]

\* ChapaAPIClient.initiate_payment: what the gateway client may hand back
InitiateOutcomes ==
    {[kind |-> "ok", reference |-> r, checkout_url |-> u, error |-> None] :
        r \in CheckoutRefs, u \in CheckoutUrls}
    \cup {[kind |-> k[1], reference |-> None, checkout_url |-> None, error |-> k[2]] :
            k \in {<<"failed", "declined">>, <<"value_error", "no key">>,
                   <<"exception", "timeout">>}}

\* ChapaAPIClient.verify_payment: the normalized result, or an exception
VerifyOutcomes ==
    {[kind |-> "ok", status |-> "success", reference |-> r, method |-> m] :
        r \in TxRefs, m \in Methods}
    \cup {[kind |-> "ok", status |-> s, reference |-> None, method |-> None] :
            s \in {"failed", "pending"}}
    \cup {[kind |-> k, status |-> None, reference |-> None, method |-> None] :
            k \in {"unsuccessful", "value_error", "exception"}}

(* ------------------------- BookingViewSet ----------------------------- *)

Nights(check_in, check_out) == check_out - check_in

\* the nights counted inclusively, both the first and the last day
ResolveTotalPriceInclusive(supplied, price_per_night, check_in, check_out) ==
    IF supplied = << >> \/ supplied[1] = 0
    THEN price_per_night * (Nights(check_in, check_out) + 1)
    ELSE supplied[1]

\* perform_create, lines 117-124: the price when the request gives none
ResolveTotalPrice(supplied, price_per_night, check_in, check_out) ==
    IF supplied = << >> \/ supplied[1] = 0
    THEN price_per_night * Nights(check_in, check_out)
    ELSE supplied[1]

NextBookingId == Cardinality({b \in BookingIds : bookings[b].exists}) + 1

\* a response returned before any call of the gateway, without payload
Respond(op, b, http, body) ==
    [op |-> op, b |-> b, http |-> http, body |-> body, gateway |-> FALSE,
     data |-> NoData]

\* a response returned once the gateway has been called
RespondAfterGateway(op, b, http, body, data) ==
    [op |-> op, b |-> b, http |-> http, body |-> body, gateway |-> TRUE,
     data |-> data]

\* perform_create without its line 129: no Payment row is made
PerformCreatePaymentSkipped(bk, payment_saved) ==
    [payment |-> NoPayment, http |-> 201, body |-> "created"]

\* perform_create, lines 126-129, once the Booking row is saved: the Payment
\* row that create_payment_for_booking leaves and the response. The insert may
\* fail in the database (payment_saved = FALSE); the exception then reaches the
\* client, nothing undoing the Booking row already written
PerformCreatePayment(bk, payment_saved) ==
    IF payment_saved
    THEN [payment |-> CreatePaymentForBooking(bk), http |-> 201, body |-> "created"]
    ELSE [payment |-> NoPayment, http |-> 500, body |-> "error"]

\* POST /api/bookings/ : serializer validation, then perform_create
CreateBooking(actor, listing_id, check_in, check_out, supplied) ==
    /\ nops < MaxOps
    /\ nops' = nops + 1
    /\ UNCHANGED <<req, delayed, saves, tasks, mail>>
    /\ IF ~ValidateDates(check_in, check_out)
       THEN /\ last' = Respond("create", 0, 400, "InvalidRange")
            /\ UNCHANGED <<bookings, payments, payment_rows>>
       ELSE IF listing_id \notin ListingIds
       THEN /\ last' = Respond("create", 0, 500, "Listing.DoesNotExist")
            /\ UNCHANGED <<bookings, payments, payment_rows>>
       ELSE /\ NextBookingId \in BookingIds
            /\ LET b == NextBookingId
                   bk == [exists |-> TRUE, guest |-> actor, listing |-> listing_id,
                          check_in_date |-> check_in, check_out_date |-> check_out,
                          total_price |->
                              ResolveTotalPrice(supplied, PricePerNight(listing_id),
                                                check_in, check_out),
                          status |-> "pending"]
               IN /\ bookings' = [bookings EXCEPT ![b] = bk]
                  /\ \E payment_saved \in BOOLEAN :
                        LET res == PerformCreatePayment(bk, payment_saved)
                        IN /\ payments' = [payments EXCEPT ![b] = res.payment]
                           /\ payment_rows' = [payment_rows EXCEPT ![b] =
                                  IF res.payment.exists THEN 1 ELSE 0]
                           /\ last' = Respond("create", b, res.http, res.body)

\* BookingViewSet.get_queryset: a booking is visible to its guest and to the
\* host of its listing
BookingVisible(actor, b) ==
    /\ b \in BookingIds
    /\ bookings[b].exists
    /\ (bookings[b].guest = actor \/ ListingHost(bookings[b].listing) = actor)

\* a cancel that looks at no status
CancellableAlways(status) == TRUE

\* cancel, line 159: only pending or confirmed bookings can be cancelled
Cancellable(status) == status \in {"pending", "confirmed"}

\* a cancel that also marks the payment of the booking as failed
CancelFailsPayment(actor, b) ==
    /\ nops < MaxOps
    /\ nops' = nops + 1
    /\ UNCHANGED <<req, delayed, saves, payment_rows, tasks, mail>>
    /\ IF BookingVisible(actor, b) /\ Cancellable(bookings[b].status)
       THEN /\ bookings' = [bookings EXCEPT ![b].status = "cancelled"]
            /\ payments' = [payments EXCEPT ![b].status =
                                IF payments[b].exists THEN "failed" ELSE @]
            /\ last' = Respond("cancel", b, 200, "cancelled")
       ELSE /\ last' = Respond("cancel", b, IF BookingVisible(actor, b) THEN 400 ELSE 404,
                               IF BookingVisible(actor, b) THEN "InvalidTransition"
                               ELSE "NotFound")
            /\ UNCHANGED <<bookings, payments>>

\* PATCH /api/bookings/{id}/cancel/
Cancel(actor, b) ==
    /\ nops < MaxOps
    /\ nops' = nops + 1
    /\ UNCHANGED <<payments, req, delayed, saves, payment_rows, tasks, mail>>
    /\ IF ~BookingVisible(actor, b)
       THEN /\ last' = Respond("cancel", b, 404, "NotFound")
            /\ UNCHANGED bookings
       ELSE IF bookings[b].guest # actor /\ ListingHost(bookings[b].listing) # actor
       THEN /\ last' = Respond("cancel", b, 403, "Forbidden")
            /\ UNCHANGED bookings
       ELSE IF ~Cancellable(bookings[b].status)
       THEN /\ last' = Respond("cancel", b, 400, "InvalidTransition")
            /\ UNCHANGED bookings
       ELSE /\ bookings' = [bookings EXCEPT ![b].status = "cancelled"]
            /\ last' = Respond("cancel", b, 200, "cancelled")

\* a confirm that looks at no status
ConfirmableAlways(status) == TRUE

\* confirm, line 181: only pending bookings can be confirmed
Confirmable(status) == status = "pending"

\* PATCH /api/bookings/{id}/confirm/
Confirm(actor, b) ==
    /\ nops < MaxOps
    /\ nops' = nops + 1
    /\ UNCHANGED <<payments, req, delayed, saves, payment_rows, tasks, mail>>
    /\ IF ~BookingVisible(actor, b)
       THEN /\ last' = Respond("confirm", b, 404, "NotFound")
            /\ UNCHANGED bookings
       ELSE IF ListingHost(bookings[b].listing) # actor
       THEN /\ last' = Respond("confirm", b, 403, "Forbidden")
            /\ UNCHANGED bookings
       ELSE IF ~Confirmable(bookings[b].status)
       THEN /\ last' = Respond("confirm", b, 400, "InvalidTransition")
            /\ UNCHANGED bookings
       ELSE /\ bookings' = [bookings EXCEPT ![b].status = "confirmed"]
            /\ last' = Respond("confirm", b, 200, "confirmed")

\* PUT /api/bookings/{id}/ , the update the ModelViewSet exposes (lines 87-108,
\* no perform_update): the serializer validates the dates and saves them; the
\* status is none of its writable fields and the price is not computed again
UpdateBooking(actor, b, check_in, check_out) ==
    /\ nops < MaxOps
    /\ nops' = nops + 1
    /\ UNCHANGED <<payments, req, delayed, saves, payment_rows, tasks, mail>>
    /\ IF ~BookingVisible(actor, b)
       THEN /\ last' = Respond("update", b, 404, "NotFound")
            /\ UNCHANGED bookings
       ELSE IF ~ValidateDates(check_in, check_out)
       THEN /\ last' = Respond("update", b, 400, "InvalidRange")
            /\ UNCHANGED bookings
       ELSE /\ bookings' = [bookings EXCEPT ![b].check_in_date = check_in,
                                            ![b].check_out_date = check_out]
            /\ last' = Respond("update", b, 200, "updated")

\* a lookup that makes a new Payment whether the booking has one or not
EnsurePaymentAlwaysCreates(b) == CreatePaymentForBooking(bookings[b])

\* initiate_payment, lines 208-212: the booking's payment, created if absent
EnsurePayment(b) ==
    IF payments[b].exists THEN payments[b] ELSE CreatePaymentForBooking(bookings[b])

\* a success branch that forgets the reference the gateway handed out
InitiateSuccessNoReference(payment_id, p, outcome) ==
    [payment |-> UpdatePaymentStatus(p, "pending", None, None, None, None),
     saved |-> TRUE, http |-> 200, body |-> "checkout_url",
     data |-> [NoData EXCEPT !.checkout_url = outcome.checkout_url,
                             !.payment_id = payment_id, !.amount = p.amount,
                             !.currency = p.currency]]

\* initiate_payment, lines 228-242: the gateway has handed out a checkout
InitiateSuccess(payment_id, p, outcome) ==
    [payment |-> UpdatePaymentStatus(p, "pending", None, outcome.reference,
                                     None, None),
     saved |-> TRUE, http |-> 200, body |-> "checkout_url",
     data |-> [NoData EXCEPT !.checkout_url = outcome.checkout_url,
                             !.payment_id = payment_id, !.amount = p.amount,
                             !.currency = p.currency]]

\* a failure branch that marks the Payment without recording the error
InitiateFailureNoErrorMessage(payment_id, p, outcome) ==
    [payment |-> UpdatePaymentStatus(p, "failed", None, None, None, None),
     saved |-> TRUE, http |-> 400, body |-> "error",
     data |-> [NoData EXCEPT !.error = outcome.error]]

\* initiate_payment, lines 243-254: the gateway's result is not a success
InitiateFailure(payment_id, p, outcome) ==
    [payment |-> UpdatePaymentStatus(p, "failed", None, None, None,
                                     outcome.error),
     saved |-> TRUE, http |-> 400, body |-> "error",
     data |-> [NoData EXCEPT !.error = outcome.error]]

\* initiate_payment, lines 221-267: what the handler does with the gateway's
\* answer: the instance as saved (or not), and the response
InitiateEffect(payment_id, p, outcome) ==
    IF outcome.kind = "ok"
    THEN InitiateSuccess(payment_id, p, outcome)
    ELSE IF outcome.kind = "failed"
    THEN InitiateFailure(payment_id, p, outcome)
    ELSE IF outcome.kind = "value_error"
    THEN [payment |-> p, saved |-> FALSE, http |-> 500,
          body |-> "Configuration error",
          data |-> [NoData EXCEPT !.error = outcome.error]]
    ELSE [payment |-> p, saved |-> FALSE, http |-> 500,
          body |-> "Unexpected error",
          data |-> [NoData EXCEPT !.error = outcome.error]]

IsTerminal(status) == status \in {"completed", "failed"}

\* an initiation that looks at no status
InitiableAlways(status) == TRUE

\* initiate_payment, line 215: only pending payments can be initiated
Initiable(status) == status = "pending"

\* POST /api/bookings/{id}/initiate_payment/
InitiatePayment(actor, b, outcome) ==
    /\ nops < MaxOps
    /\ nops' = nops + 1
    /\ UNCHANGED <<bookings, req, delayed, saves, tasks, mail>>
    /\ IF ~BookingVisible(actor, b)
       THEN /\ last' = Respond("initiate_payment", b, 404, "NotFound")
            /\ UNCHANGED <<payments, payment_rows>>
       ELSE IF bookings[b].guest # actor
       THEN /\ last' = Respond("initiate_payment", b, 403, "Forbidden")
            /\ UNCHANGED <<payments, payment_rows>>
       ELSE LET payment == EnsurePayment(b)
            IN /\ payment_rows' = [payment_rows EXCEPT ![b] =
                      IF payments[b].exists THEN @ ELSE @ + 1]
               /\ IF ~Initiable(payment.status)
                  THEN /\ last' = Respond("initiate_payment", b, 400,
                                          "InvalidTransition")
                       /\ payments' = [payments EXCEPT ![b] = payment]
                  ELSE LET eff == InitiateEffect(b, payment, outcome)
                       IN /\ payments' = [payments EXCEPT ![b] = eff.payment]
                          /\ last' = RespondAfterGateway("initiate_payment", b,
                                                         eff.http, eff.body, eff.data)

\* the workers are interchangeable: a request is taken by the first idle one
Takes(w) ==
    /\ req[w].pc = "idle"
    /\ (w = "w1" \/ req["w1"].pc # "idle")

\* a Payment table without the constraint of the one-to-one relation
UniqueBookingNotEnforced(rows) == TRUE

\* Payment.booking is one-to-one (booking.payment, line 210): the database
\* takes a Payment row for a booking only while it holds none for it
UniqueBooking(rows) == rows = 0

\* the results of ChapaAPIClient.initiate_payment when the gateway hands out a
\* new reference at each initiation
ReissuedOutcomes ==
    {[kind |-> "ok", reference |-> r, checkout_url |-> u, error |-> None] :
        r \in ReissuedRefs, u \in CheckoutUrls}
    \cup {o \in InitiateOutcomes : o.kind # "ok"}

\* initiate_payment up to the lookup of the payment (lines 201-210): the
\* guards are applied and booking.payment is read
InitiateLookup(w, actor, b) ==
    /\ Takes(w)
    /\ nops < MaxOps
    /\ nops' = nops + 1
    /\ UNCHANGED <<bookings, payments, delayed, saves, payment_rows, tasks, mail>>
    /\ IF ~BookingVisible(actor, b)
       THEN /\ last' = Respond("initiate_payment", b, 404, "NotFound")
            /\ UNCHANGED req
       ELSE IF bookings[b].guest # actor
       THEN /\ last' = Respond("initiate_payment", b, 403, "Forbidden")
            /\ UNCHANGED req
       ELSE /\ req' = [req EXCEPT ![w] = [pc |-> "ensure", op |-> "initiate_payment",
                                          b |-> b, payment |-> payments[b]]]
            /\ UNCHANGED last

\* initiate_payment from line 211 on: the Payment is inserted when the lookup
\* found none (the insert is refused, and the exception raised outside any try
\* block, when another request has inserted it meanwhile); then the status
\* check, the call of the gateway and the save of the instance
InitiateRest(w, outcome) ==
    /\ req[w].pc = "ensure"
    /\ LET b == req[w].b
           found == req[w].payment.exists
           payment == IF found THEN req[w].payment
                      ELSE CreatePaymentForBooking(bookings[b])
           ensured == IF found THEN payments ELSE [payments EXCEPT ![b] = payment]
       IN /\ req' = [req EXCEPT ![w] = IdleRequest]
          /\ UNCHANGED <<bookings, delayed, saves, nops, tasks, mail>>
          /\ IF ~found /\ ~UniqueBooking(payment_rows[b])
             THEN /\ last' = Respond("initiate_payment", b, 500, "IntegrityError")
                  /\ UNCHANGED <<payments, payment_rows>>
             ELSE /\ payment_rows' = [payment_rows EXCEPT ![b] =
                         IF found THEN @ ELSE @ + 1]
                  /\ IF ~Initiable(payment.status)
                     THEN /\ last' = Respond("initiate_payment", b, 400,
                                             "InvalidTransition")
                          /\ payments' = ensured
                     ELSE LET eff == InitiateEffect(b, payment, outcome)
                          IN /\ payments' = IF eff.saved
                                            THEN [payments EXCEPT ![b] = eff.payment]
                                            ELSE ensured
                             /\ last' = RespondAfterGateway("initiate_payment", b,
                                              eff.http, eff.body, eff.data)

(* ------------------------- PaymentViewSet ----------------------------- *)

\* PaymentViewSet.get_queryset: a payment is visible to the guest of its
\* booking and to the host of the booking's listing
PaymentVisible(actor, b) ==
    /\ b \in BookingIds
    /\ payments[b].exists
    /\ (bookings[b].guest = actor \/ ListingHost(bookings[b].listing) = actor)

NoEffect(p, http, body) ==
    [payment |-> p, saved |-> FALSE, confirmation |-> 0, failure |-> 0,
     http |-> http, body |-> body, data |-> NoData]

\* verify_status without the transaction_id argument of line 334
VerifyStatusEffectNoTransactionId(p, outcome) ==
    IF outcome.kind = "ok" /\ outcome.status = "success"
    THEN [payment |-> UpdatePaymentStatus(p, "completed", None, None,
                                          outcome.method, None),
          saved |-> TRUE, confirmation |-> 1, failure |-> 0,
          http |-> 200, body |-> "completed", data |-> NoData]
    ELSE NoEffect(p, 400, "error")

\* verify_status, lines 322-407: what the poll does with the gateway's answer;
\* its success response carries the transaction id the gateway reported
VerifyStatusEffect(p, outcome) ==
    IF outcome.kind = "ok"
    THEN IF outcome.status = "success"
         THEN [payment |-> UpdatePaymentStatus(p, "completed", outcome.reference,
                                               None, outcome.method, None),
               saved |-> TRUE, confirmation |-> 1, failure |-> 0,
               http |-> 200, body |-> "completed",
               data |-> [NoData EXCEPT !.transaction_id = outcome.reference]]
         ELSE IF outcome.status = "failed"
         THEN [payment |-> UpdatePaymentStatus(p, "failed", None, None, None,
                                               "Payment failed on Chapa"),
               saved |-> TRUE, confirmation |-> 0, failure |-> 1,
               http |-> 400, body |-> "failed", data |-> NoData]
         ELSE NoEffect(p, 200, "pending")
    ELSE IF outcome.kind = "unsuccessful"
    THEN NoEffect(p, 400, "error")
    ELSE IF outcome.kind = "value_error"
    THEN NoEffect(p, 500, "Configuration error")
    ELSE NoEffect(p, 500, "Unexpected error")

\* a callback that answers as the poll does, with the transaction id
VerifySuccessWithDetails(p, outcome) ==
    [payment |-> UpdatePaymentStatus(p, "completed", outcome.reference,
                                     None, outcome.method, None),
     saved |-> TRUE, confirmation |-> 1, failure |-> 0,
     http |-> 200, body |-> "completed",
     data |-> [NoData EXCEPT !.transaction_id = outcome.reference]]

\* verify, lines 440-467: the gateway reports `success` to the callback; the
\* response carries success, status and a message only
VerifySuccess(p, outcome) ==
    [payment |-> UpdatePaymentStatus(p, "completed", outcome.reference,
                                     None, outcome.method, None),
     saved |-> TRUE, confirmation |-> 1, failure |-> 0,
     http |-> 200, body |-> "completed", data |-> NoData]

\* verify, lines 469-480: the gateway reports `failed` to the callback
VerifyFailure(p) ==
    [payment |-> UpdatePaymentStatus(p, "failed", None, None, None,
                                     "Payment failed"),
     saved |-> TRUE, confirmation |-> 0, failure |-> 0,
     http |-> 400, body |-> "failed", data |-> NoData]

\* a callback that takes every status other than `success` for a failure
VerifyEffectPendingAsFailed(p, outcome) ==
    IF outcome.kind = "ok"
    THEN IF outcome.status = "success"
         THEN VerifySuccess(p, outcome)
         ELSE VerifyFailure(p)
    ELSE IF outcome.kind = "unsuccessful"
    THEN NoEffect(p, 400, "error")
    ELSE NoEffect(p, 500, "error")

\* verify, lines 433-498: what the callback does with the gateway's answer
VerifyEffect(p, outcome) ==
    IF outcome.kind = "ok"
    THEN IF outcome.status = "success"
         THEN VerifySuccess(p, outcome)
         ELSE IF outcome.status = "failed"
         THEN VerifyFailure(p)
         ELSE NoEffect(p, 200, "pending")
    ELSE IF outcome.kind = "unsuccessful"
    THEN NoEffect(p, 400, "error")
    ELSE NoEffect(p, 500, "error")

\* a poll that asks the gateway whether the payment was initiated or not
InitiatedAlways(p) == TRUE

\* verify_status, line 316: the payment holds the reference of a checkout
Initiated(p) == p.chapa_reference # None

\* POST /api/payments/{id}/verify_status/ up to the call of the gateway
\* (lines 309-324): the instance is loaded, the guards are applied
VerifyStatusBegin(w, actor, b) ==
    /\ Takes(w)
    /\ nops < MaxOps
    /\ nops' = nops + 1
    /\ UNCHANGED <<bookings, payments, delayed, saves, payment_rows, tasks, mail>>
    /\ IF ~PaymentVisible(actor, b)
       THEN /\ last' = Respond("verify_status", b, 404, "NotFound")
            /\ UNCHANGED req
       ELSE IF bookings[b].guest # actor /\ ListingHost(bookings[b].listing) # actor
       THEN /\ last' = Respond("verify_status", b, 403, "Forbidden")
            /\ UNCHANGED req
       ELSE IF ~Initiated(payments[b])
       THEN /\ last' = Respond("verify_status", b, 400, "not initiated")
            /\ UNCHANGED req
       ELSE /\ req' = [req EXCEPT ![w] = [pc |-> "gateway", op |-> "verify_status",
                                          b |-> b, payment |-> payments[b]]]
            /\ UNCHANGED last

\* POST /api/payments/verify/ up to the call of the gateway (lines 417-435)
VerifyBegin(w, tx_ref) ==
    /\ Takes(w)
    /\ nops < MaxOps
    /\ nops' = nops + 1
    /\ UNCHANGED <<bookings, payments, delayed, saves, payment_rows, tasks, mail>>
    /\ IF tx_ref = 0
       THEN /\ last' = Respond("verify", 0, 400, "tx_ref parameter is required")
            /\ UNCHANGED req
       ELSE IF ~(tx_ref \in BookingIds /\ payments[tx_ref].exists)
       THEN /\ last' = Respond("verify", tx_ref, 404, "Payment not found")
            /\ UNCHANGED req
       ELSE /\ req' = [req EXCEPT ![w] = [pc |-> "gateway", op |-> "verify",
                                          b |-> tx_ref,
                                          payment |-> payments[tx_ref]]]
            /\ UNCHANGED last

\* a task's .delay raises inside the handler's try block (the queue cannot be
\* reached): the handler answers from its `except Exception`, lines 402-407 of
\* verify_status and 493-498 of verify
DelayRaised(op, b) ==
    IF op = "verify_status"
    THEN RespondAfterGateway(op, b, 500, "Unexpected error", NoData)
    ELSE RespondAfterGateway(op, b, 500, "error", NoData)

\* the rest of a verification handler, once the gateway has answered: the
\* instance loaded at the beginning is updated and saved, the task is handed
\* to the queue (which takes it or raises) and the response is returned
Finish(w, eff) ==
    LET b == req[w].b
    IN /\ payments' = IF eff.saved THEN [payments EXCEPT ![b] = eff.payment]
                      ELSE payments
       /\ saves' = [saves EXCEPT ![b] =
              IF eff.saved /\ IsTerminal(eff.payment.status) THEN @ + 1 ELSE @]
       /\ delayed' = [delayed EXCEPT
              ![b].confirmation = @ + eff.confirmation,
              ![b].failure = @ + eff.failure]
       /\ \E queued \in BOOLEAN :
              /\ (eff.confirmation + eff.failure = 0) => queued
              /\ last' = IF queued
                         THEN RespondAfterGateway(req[w].op, b, eff.http, eff.body,
                                                  eff.data)
                         ELSE DelayRaised(req[w].op, b)
       /\ req' = [req EXCEPT ![w] = IdleRequest]
       /\ UNCHANGED <<bookings, nops, payment_rows, tasks, mail>>

VerifyStatusFinish(w, outcome) ==
    /\ req[w].pc = "gateway"
    /\ req[w].op = "verify_status"
    /\ Finish(w, VerifyStatusEffect(req[w].payment, outcome))

VerifyFinish(w, outcome) ==
    /\ req[w].pc = "gateway"
    /\ req[w].op = "verify"
    /\ Finish(w, VerifyEffect(req[w].payment, outcome))

(* ------------------------- notification tasks ------------------------- *)

\* a backoff that grows by a fixed step
CountdownLinear(retries) == 60 * (retries + 1)

\* countdown=60 * (2 ** self.request.retries)
Countdown(retries) == 60 * (2 ^ retries)

\* a retry allowed once more than max_retries says
CanRetryInclusive(retries) == retries <= MaxRetries

\* self.retry under max_retries: the task is scheduled again while the retries
\* already made are fewer than max_retries; otherwise the exception is raised
\* in the worker and the task has failed
CanRetry(retries) == retries < MaxRetries

\* <task>.delay(...): the task is handed to the queue
Delay(t) ==
    /\ tasks[t].state = "none"
    /\ tasks' = [tasks EXCEPT ![t].state = "queued"]
    /\ UNCHANGED <<bookings, payments, req, delayed, saves, nops, last, payment_rows, mail>>

\* a worker runs the task once: send_mail returns (sent) or raises, and the
\* except clause calls self.retry
Run(t, sent) ==
    /\ tasks[t].state \in {"queued", "retry"}
    /\ tasks' = [tasks EXCEPT ![t] =
          IF sent
          THEN [@ EXCEPT !.state = "succeeded", !.attempts = @ + 1]
          ELSE IF CanRetry(@.retries)
          THEN [state |-> "retry", retries |-> @.retries + 1,
                attempts |-> @.attempts + 1,
                countdowns |-> Append(@.countdowns, Countdown(@.retries))]
          ELSE [@ EXCEPT !.state = "failed", !.attempts = @ + 1]]
    /\ UNCHANGED <<bookings, payments, req, delayed, saves, nops, last, payment_rows, mail>>

(* ------------------------ synchronous senders ------------------------- *)

\* the two senders of email_tasks.py and a sender not called yet
SenderNames == {"send_payment_confirmation_email", "send_payment_failure_email"}

NoCalls == [calls |-> 0, attempts |-> 0, handed |-> 0, result |-> None]

\* send_mail(..., fail_silently=False) hands the message to the mail backend
\* or raises
SendMailOutcomes == {"sent", "raises"}

\* a sender whose except clause lets the exception through
SenderResultPropagates(prepared, backend) == IF prepared /\ backend = "sent" THEN "True" ELSE "raised"

\* return True after send_mail has returned; except Exception: return False
SenderResult(prepared, backend) == IF prepared /\ backend = "sent" THEN "True" ELSE "False"

\* the body of a sender: the message is built from the booking and the payment
\* inside the try block (prepared: building it did not raise), then send_mail
\* is called once; an exception anywhere in the block skips the rest of it
Sender(s, prepared, backend) ==
    /\ mail[s].calls < MaxCalls
    /\ mail' = [mail EXCEPT ![s] =
          [calls    |-> @.calls + 1,
           attempts |-> IF prepared THEN @.attempts + 1 ELSE @.attempts,
           handed   |-> IF prepared /\ backend = "sent" THEN @.handed + 1 ELSE @.handed,
           result   |-> SenderResult(prepared, backend)]]
    /\ UNCHANGED <<bookings, payments, req, delayed, saves, nops, last, payment_rows, tasks>>

\* send_payment_confirmation_email(booking_obj, payment_obj)
SendPaymentConfirmationEmail(prepared, backend) ==
    Sender("send_payment_confirmation_email", prepared, backend)

\* send_payment_failure_email(booking_obj, payment_obj, error_message)
SendPaymentFailureEmail(prepared, backend) ==
    Sender("send_payment_failure_email", prepared, backend)

(* --------------------------- specification ---------------------------- *)

Init ==
    /\ bookings = [b \in BookingIds |-> NoBooking]
    /\ payments = [b \in BookingIds |-> NoPayment]
    /\ req = [w \in Workers |-> IdleRequest]
    /\ delayed = [b \in BookingIds |-> [confirmation |-> 0, failure |-> 0]]
    /\ saves = [b \in BookingIds |-> 0]
    /\ nops = 0
    /\ last = NoResponse
    /\ payment_rows = [b \in BookingIds |-> 0]
    /\ tasks = [t \in TaskNames |-> NoTask]
    /\ mail = [s \in SenderNames |-> NoCalls]

\* the payment lifecycle: every handler, the bookings being requested without
\* an explicit total_price
PaymentRequests ==
    \/ \E actor \in Users, b \in BookingIds, outcome \in InitiateOutcomes :
          InitiatePayment(actor, b, outcome)
    \/ \E w \in Workers, actor \in Users, b \in BookingIds :
          VerifyStatusBegin(w, actor, b)
    \/ \E w \in Workers, outcome \in VerifyOutcomes : VerifyStatusFinish(w, outcome)
    \/ \E w \in Workers, tx_ref \in BookingIds \cup {0} : VerifyBegin(w, tx_ref)
    \/ \E w \in Workers, outcome \in VerifyOutcomes : VerifyFinish(w, outcome)

Next ==
    \/ \E actor \in Guests, listing_id \in ListingIds \cup {UnknownListing},
          check_in \in Dates, check_out \in Dates :
          CreateBooking(actor, listing_id, check_in, check_out, << >>)
    \/ \E actor \in Users, b \in BookingIds : Cancel(actor, b)
    \/ \E actor \in Users, b \in BookingIds : Confirm(actor, b)
    \/ PaymentRequests

Spec == Init /\ [][Next]_vars

\* the booking requests alone, over every shape of the creation request
NextBooking ==
    \/ \E actor \in Guests, listing_id \in ListingIds \cup {UnknownListing},
          check_in \in Dates, check_out \in Dates, supplied \in SuppliedPrices :
          CreateBooking(actor, listing_id, check_in, check_out, supplied)
    \/ \E actor \in Users, b \in BookingIds : Cancel(actor, b)
    \/ \E actor \in Users, b \in BookingIds : Confirm(actor, b)

SpecBooking == Init /\ [][NextBooking]_vars

\* every request exposed on bookings that writes a Booking row, the bookings
\* being requested for the known listing and without an explicit total_price
NextLifecycle ==
    \/ \E actor \in Guests, listing_id \in ListingIds,
          check_in \in Dates, check_out \in Dates :
          CreateBooking(actor, listing_id, check_in, check_out, << >>)
    \/ \E actor \in Users, b \in BookingIds, check_in \in Dates, check_out \in Dates :
          UpdateBooking(actor, b, check_in, check_out)
    \/ \E actor \in Users, b \in BookingIds : Cancel(actor, b)
    \/ \E actor \in Users, b \in BookingIds : Confirm(actor, b)

SpecLifecycle == Init /\ [][NextLifecycle]_vars

\* the initiation of a payment as two web workers serve it, the gateway
\* handing out a new reference at each initiation
NextInitiate ==
    \/ \E actor \in Guests, listing_id \in ListingIds,
          check_in \in Dates, check_out \in Dates :
          CreateBooking(actor, listing_id, check_in, check_out, << >>)
    \/ \E w \in Workers, actor \in Users, b \in BookingIds : InitiateLookup(w, actor, b)
    \/ \E w \in Workers, outcome \in ReissuedOutcomes : InitiateRest(w, outcome)

SpecInitiate == Init /\ [][NextInitiate]_vars

\* the notification tasks in the worker pool: a task handed to the queue is
\* run by a worker, and run again when its countdown has passed
NextTasks ==
    \/ \E t \in TaskNames : Delay(t)
    \/ \E t \in TaskNames, sent \in BOOLEAN : Run(t, sent)

SpecTasks ==
    /\ Init
    /\ [][NextTasks]_vars
    /\ \A t \in TaskNames : WF_vars(\E sent \in BOOLEAN : Run(t, sent))

\* the synchronous senders, called with any booking and payment and over a
\* mail backend that accepts the message or raises
NextSenders ==
    \/ \E prepared \in BOOLEAN, backend \in SendMailOutcomes :
          SendPaymentConfirmationEmail(prepared, backend)
    \/ \E prepared \in BOOLEAN, backend \in SendMailOutcomes :
          SendPaymentFailureEmail(prepared, backend)

SpecSenders == Init /\ [][NextSenders]_vars

(* ------------------------------ claims -------------------------------- *)

\* a verification request of worker w returns, the gateway having answered
\* with the given status
Returns(w, gateway_status) ==
    \E outcome \in VerifyOutcomes :
        /\ outcome.kind = "ok"
        /\ outcome.status = gateway_status
        /\ (VerifyStatusFinish(w, outcome) \/ VerifyFinish(w, outcome))

PollReturns(w, gateway_status) ==
    \E outcome \in VerifyOutcomes :
        /\ outcome.kind = "ok"
        /\ outcome.status = gateway_status
        /\ VerifyStatusFinish(w, outcome)

CallbackReturns(w, gateway_status) ==
    \E outcome \in VerifyOutcomes :
        /\ outcome.kind = "ok"
        /\ outcome.status = gateway_status
        /\ VerifyFinish(w, outcome)

NothingDone == UNCHANGED <<payments, saves, delayed>>

\* C1: the status of a Payment that is completed or failed is never changed
\* again by any request (terminal statuses are final).
C1_TerminalStatusIsFinal ==
    [][\A b \in BookingIds :
          IsTerminal(payments[b].status) =>
              payments'[b].status = payments[b].status]_vars

\* C2: a poll that follows a poll which completed the Payment, the gateway
\* answering `success` again, writes nothing and queues no second confirmation.
C2_SecondSuccessIsNoOp ==
    [][\A w \in Workers :
          (/\ req[w].pc = "gateway"
           /\ last.op = "verify_status"
           /\ last.b = req[w].b
           /\ last.body = "completed"
           /\ req[w].payment.status = "completed"
           /\ PollReturns(w, "success"))
              => NothingDone]_vars

\* C3: of two verifications racing on a pending Payment, one told `success` and
\* one told `failed`, the one that returns second finds the terminal status
\* the other has written and does nothing: one terminal write and one
\* notification in total.
C3_RaceLoserIsNoOp ==
    [][\A w \in Workers :
          (/\ req[w].pc = "gateway"
           /\ req[w].payment.status = "pending"
           /\ saves[req[w].b] >= 1
           /\ \/ (payments[req[w].b].status = "completed" /\ Returns(w, "failed"))
              \/ (payments[req[w].b].status = "failed" /\ Returns(w, "success")))
              => NothingDone]_vars

\* C4: the callback delivered again right after a delivery that settled the
\* Payment, the gateway reporting the same outcome, leaves the Payment as the
\* first delivery left it and queues no further notification.
C4_CallbackRedeliveryIsNoOp ==
    [][\A w \in Workers, outcome \in VerifyOutcomes :
          (/\ req[w].pc = "gateway"
           /\ outcome.kind = "ok"
           /\ \/ /\ outcome.status = "success"
                 /\ last = RespondAfterGateway("verify", req[w].b, 200,
                                              "completed", NoData)
                 /\ req[w].payment.status = "completed"
                 /\ req[w].payment.transaction_id = outcome.reference
              \/ /\ outcome.status = "failed"
                 /\ last = RespondAfterGateway("verify", req[w].b, 400,
                                              "failed", NoData)
                 /\ req[w].payment.status = "failed"
           /\ VerifyFinish(w, outcome))
              => (payments' = payments /\ delayed' = delayed)]_vars

\* C5: a verification, poll or callback, that moves a pending Payment to failed
\* on the gateway's `failed` records an error and queues exactly one failure
\* notification.
C5_FailureIsNotified ==
    [][\A w \in Workers :
          (/\ req[w].pc = "gateway"
           /\ payments[req[w].b].status = "pending"
           /\ Returns(w, "failed"))
              => LET b == req[w].b
                 IN /\ payments'[b].status = "failed"
                    /\ payments'[b].error_message # None
                    /\ delayed'[b].failure = delayed[b].failure + 1]_vars

\* C6: a verification of a pending Payment that the gateway answers with
\* `success`, reference R and a method leaves the Payment completed with
\* transaction_id R and that method, and queues exactly one confirmation.
C6_SuccessCompletesPayment ==
    [][\A w \in Workers, outcome \in VerifyOutcomes :
          (/\ outcome.kind = "ok"
           /\ outcome.status = "success"
           /\ req[w].pc = "gateway"
           /\ payments[req[w].b].status = "pending"
           /\ (VerifyStatusFinish(w, outcome) \/ VerifyFinish(w, outcome)))
              => LET b == req[w].b
                 IN /\ payments'[b].status = "completed"
                    /\ payments'[b].transaction_id = outcome.reference
                    /\ payments'[b].payment_method = outcome.method
                    /\ delayed'[b].confirmation = delayed[b].confirmation + 1
                    /\ delayed'[b].failure = delayed[b].failure
                    /\ saves'[b] = saves[b] + 1]_vars

\* a poll has just completed a Payment: first terminal write, one confirmation
C6_Witness ==
    /\ last.op = "verify_status"
    /\ last.body = "completed"
    /\ payments[last.b].status = "completed"
    /\ payments[last.b].transaction_id = "TX2"
    /\ payments[last.b].payment_method = "card"
    /\ delayed[last.b].confirmation = 1
    /\ saves[last.b] = 1

\* C7: right after a successful CreateBooking the new Booking is pending and
\* has its Payment, which is pending.
C7_CreatedBookingHasPendingPayment ==
    (last.op = "create" /\ last.http = 201) =>
        /\ bookings[last.b].exists
        /\ bookings[last.b].status = "pending"
        /\ payments[last.b].exists
        /\ payments[last.b].status = "pending"

C7_Witness ==
    /\ last.op = "create"
    /\ last.http = 201
    /\ bookings[last.b].exists
    /\ payments[last.b].status = "pending"
    /\ payments[last.b].amount = bookings[last.b].total_price

\* C8: in every state a Booking exists exactly when its Payment exists.
C8_BookingAndPaymentTogether ==
    \A b \in BookingIds : bookings[b].exists <=> payments[b].exists

\* C9: a booking requested without total_price, for n >= 1 nights, is stored
\* with total_price = price_per_night * n (a step that stores no booking is
\* none of these).
C9_TotalPriceIsPriceTimesNights ==
    [][\/ bookings' = bookings
       \/ \A actor \in Guests, listing_id \in ListingIds,
             check_in \in Dates, check_out \in Dates :
              (/\ check_out - check_in >= 1
               /\ CreateBooking(actor, listing_id, check_in, check_out, << >>))
                  => /\ bookings'[NextBookingId].exists
                     /\ bookings'[NextBookingId].total_price =
                            PricePerNight(listing_id) * (check_out - check_in)]_vars

\* a stay of two nights stored at twice the nightly price, its payment alike
C9_Witness ==
    \E b \in BookingIds :
        /\ bookings[b].exists
        /\ bookings[b].check_out_date - bookings[b].check_in_date = 2
        /\ bookings[b].total_price = 2 * BasePrice
        /\ payments[b].exists
        /\ payments[b].amount = 2 * BasePrice

\* C10: no stored Booking has check_out_date at or before check_in_date, and
\* every step is either answered InvalidRange and writes no row, or is not a
\* creation request with check_out_date <= check_in_date.
C10_InvalidRangeRejected ==
    /\ [](\A b \in BookingIds :
            bookings[b].exists => bookings[b].check_out_date > bookings[b].check_in_date)
    /\ [][\/ (last'.body = "InvalidRange" /\ UNCHANGED <<bookings, payments>>)
          \/ nops' = nops
          \/ ~\E actor \in Guests, listing_id \in ListingIds \cup {UnknownListing},
                check_in \in Dates, check_out \in Dates, supplied \in SuppliedPrices :
                 /\ check_out <= check_in
                 /\ CreateBooking(actor, listing_id, check_in, check_out, supplied)]_vars

\* a request with an empty range was refused while the database holds a booking
C10_Witness ==
    /\ last.op = "create"
    /\ last.body = "InvalidRange"
    /\ \E b \in BookingIds : bookings[b].exists

\* C11: a creation request whose listing_id resolves to no Listing is answered
\* NotFound and writes neither a Booking nor a Payment.
C11_UnknownListingIsNotFound ==
    [][\/ nops' = nops
       \/ \A actor \in Guests, check_in \in Dates, check_out \in Dates,
             supplied \in SuppliedPrices :
              (/\ ValidateDates(check_in, check_out)
               /\ CreateBooking(actor, UnknownListing, check_in, check_out, supplied))
                  => /\ last'.http = 404
                     /\ last'.body = "NotFound"
                     /\ UNCHANGED <<bookings, payments>>]_vars

\* C12: a confirm request on a stored Booking sets the status to confirmed when
\* the Booking is pending and the actor is the host of its listing; from every
\* other actor or status it is answered Forbidden or InvalidTransition and the
\* status stays as it was.
C12_ConfirmOnlyByHostWhenPending ==
    [][\A actor \in Users, b \in BookingIds :
          (bookings[b].exists /\ Confirm(actor, b))
              => IF bookings[b].status = "pending"
                    /\ actor = ListingHost(bookings[b].listing)
                 THEN bookings'[b].status = "confirmed"
                 ELSE /\ last'.body \in {"Forbidden", "InvalidTransition"}
                      /\ bookings'[b].status = bookings[b].status]_vars

\* C13: a cancel request on a stored Booking sets the status to cancelled only
\* for the guest or the host and from pending or confirmed; it is never
\* answered as a success on a cancelled Booking, and a refused cancel leaves
\* the Booking as it was.
C13_CancelOnlyByPartyWhenOpen ==
    [][\A actor \in Users, b \in BookingIds :
          (bookings[b].exists /\ Cancel(actor, b))
              => /\ (last'.http = 200) =>
                        /\ actor \in {bookings[b].guest,
                                      ListingHost(bookings[b].listing)}
                        /\ bookings[b].status \in {"pending", "confirmed"}
                        /\ bookings'[b].status = "cancelled"
                 /\ (bookings[b].status = "cancelled") => last'.http # 200
                 /\ (last'.http # 200) => bookings' = bookings]_vars

\* a confirmed Booking has been cancelled and a further cancel was refused
C13_Witness ==
    /\ last.op = "cancel"
    /\ last.body = "InvalidTransition"
    /\ bookings[last.b].status = "cancelled"

InitiatedByGuest(actor, b, outcome) ==
    /\ bookings[b].exists
    /\ bookings[b].guest = actor
    /\ InitiatePayment(actor, b, outcome)

\* C15: an initiation asked by the guest on a Payment that is completed or
\* failed is answered InvalidTransition, calls no gateway and leaves the
\* Payment as it was.
C15_InitiateOnSettledPaymentRefused ==
    [][\/ last'.op # "initiate_payment"
       \/ \A actor \in Users, b \in BookingIds, outcome \in InitiateOutcomes :
             (/\ payments[b].status \in {"completed", "failed"}
              /\ InitiatedByGuest(actor, b, outcome))
                 => /\ last'.body = "InvalidTransition"
                    /\ ~last'.gateway
                    /\ payments' = payments]_vars

\* the guest asked again for the initiation of a completed Payment
C15_Witness ==
    /\ last.op = "initiate_payment"
    /\ last.body = "InvalidTransition"
    /\ ~last.gateway
    /\ payments[last.b].status = "completed"

\* C16: an initiation asked on a stored Booking by anyone but its guest, the
\* host of the listing included, is answered Forbidden; no Payment is created,
\* no gateway is called and no Payment field is changed.
C16_InitiateByOthersForbidden ==
    [][\A actor \in Users, b \in BookingIds, outcome \in InitiateOutcomes :
          (/\ bookings[b].exists
           /\ bookings[b].guest # actor
           /\ InitiatePayment(actor, b, outcome))
              => /\ last'.body = "Forbidden"
                 /\ ~last'.gateway
                 /\ payments' = payments]_vars

\* C17: an initiation by the guest on a pending Payment, the gateway handing
\* out reference R, leaves the Payment pending with chapa_reference R and
\* nothing else changed, and returns the checkout URL with the payment id,
\* the amount and the currency.
C17_InitiateSuccessKeepsPending ==
    [][\/ last'.op # "initiate_payment"
       \/ \A actor \in Users, b \in BookingIds, outcome \in InitiateOutcomes :
             (/\ outcome.kind = "ok"
              /\ bookings[b].exists
              /\ EnsurePayment(b).status = "pending"
              /\ InitiatedByGuest(actor, b, outcome))
                 => /\ payments'[b] =
                           [EnsurePayment(b) EXCEPT !.chapa_reference = outcome.reference]
                    /\ payments'[b].status = "pending"
                    /\ last'.http = 200
                    /\ last'.data =
                           [checkout_url |-> outcome.checkout_url, payment_id |-> b,
                            amount |-> bookings[b].total_price,
                            currency |-> DefaultCurrency, transaction_id |-> None,
                            error |-> None]]_vars

\* the guest has been handed the checkout of a two-night stay
C17_Witness ==
    /\ last.op = "initiate_payment"
    /\ last.http = 200
    /\ last.data.checkout_url = "checkout/1"
    /\ last.data.amount = 2 * BasePrice
    /\ payments[last.b].status = "pending"
    /\ payments[last.b].chapa_reference = "CK1"

\* C18: an initiation by the guest on a pending Payment that the gateway
\* refuses leaves the Payment failed with the gateway's error recorded, returns
\* that error and queues no notification.
C18_InitiateFailureMarksFailed ==
    [][\/ last'.op # "initiate_payment"
       \/ \A actor \in Users, b \in BookingIds, outcome \in InitiateOutcomes :
             (/\ outcome.kind = "failed"
              /\ bookings[b].exists
              /\ EnsurePayment(b).status = "pending"
              /\ InitiatedByGuest(actor, b, outcome))
                 => /\ payments'[b].status = "failed"
                    /\ payments'[b].error_message = outcome.error
                    /\ last'.http = 400
                    /\ last'.data.error = outcome.error
                    /\ delayed' = delayed]_vars

\* the gateway has refused the initiation: the Payment is failed, nothing queued
C18_Witness ==
    /\ last.op = "initiate_payment"
    /\ last.http = 400
    /\ last.data.error = "declined"
    /\ payments[last.b].status = "failed"
    /\ payments[last.b].error_message = "declined"
    /\ delayed[last.b] = [confirmation |-> 0, failure |-> 0]

\* C19: a gateway-client error (an unsuccessful result, a raised exception, a
\* misconfiguration) during an initiation or a verification is answered as an
\* error, leaves the Payment as it was and queues no notification.
C19_GatewayErrorWritesNothing ==
    [][/\ \A actor \in Users, b \in BookingIds, outcome \in InitiateOutcomes :
            (/\ outcome.kind # "ok"
             /\ bookings[b].exists
             /\ EnsurePayment(b).status = "pending"
             /\ InitiatedByGuest(actor, b, outcome))
                => /\ last'.http >= 400
                   /\ payments'[b] = EnsurePayment(b)
                   /\ delayed' = delayed
       /\ \A w \in Workers, outcome \in VerifyOutcomes :
            (/\ outcome.kind # "ok"
             /\ req[w].pc = "gateway"
             /\ (VerifyStatusFinish(w, outcome) \/ VerifyFinish(w, outcome)))
                => /\ last'.http >= 400
                   /\ payments' = payments
                   /\ delayed' = delayed]_vars

\* C20: a verification, poll or callback, that the gateway answers with
\* `pending` writes no Payment and queues no notification.
C20_PendingResultWritesNothing ==
    [][\A w \in Workers :
          (req[w].pc = "gateway" /\ Returns(w, "pending"))
              => /\ payments' = payments
                 /\ delayed' = delayed
                 /\ saves' = saves
                 /\ last'.body = "pending"]_vars

\* the callback was told `pending` on an initiated Payment, which stays pending
C20_Witness ==
    /\ last.op = "verify"
    /\ last.body = "pending"
    /\ payments[last.b].status = "pending"
    /\ payments[last.b].chapa_reference = "CK1"
    /\ delayed[last.b] = [confirmation |-> 0, failure |-> 0]

\* C21: a missing-credentials misconfiguration of the gateway (the ValueError
\* of the client) is answered as a configuration error, unlike any other
\* raised error, by the initiation, by the poll and by the callback.
C21_ConfigurationErrorDistinct ==
    [][/\ \A actor \in Users, b \in BookingIds, outcome \in InitiateOutcomes :
            (/\ outcome.kind = "value_error"
             /\ bookings[b].exists
             /\ EnsurePayment(b).status = "pending"
             /\ InitiatedByGuest(actor, b, outcome))
                => last'.body = "Configuration error"
       /\ \A w \in Workers, outcome \in VerifyOutcomes :
            (/\ outcome.kind = "value_error"
             /\ req[w].pc = "gateway"
             /\ (VerifyStatusFinish(w, outcome) \/ VerifyFinish(w, outcome)))
                => last'.body = "Configuration error"]_vars

\* C22: a verification that applies a terminal transition returns the outcome
\* of that transition (completed / failed), also when handing the notification
\* to the queue raises.
C22_DispatchFailureNotSurfaced ==
    [][\A w \in Workers :
          (/\ req[w].pc = "gateway"
           /\ PollReturns(w, "success") \/ CallbackReturns(w, "success")
              \/ PollReturns(w, "failed") \/ CallbackReturns(w, "failed"))
              => last'.body = payments'[req[w].b].status]_vars

\* C23: a task is attempted at most 1 + 3 times; once it has succeeded or
\* failed it is never run again; no step of a task changes a response or a
\* row; and a queued task ends, succeeded or failed.
C23_TaskGivesUpAfterMaxRetries ==
    /\ [](\A t \in TaskNames :
            /\ tasks[t].attempts <= 1 + 3
            /\ tasks[t].state = "failed" => tasks[t].attempts = 1 + 3)
    /\ [][\A t \in TaskNames :
            tasks[t].state \in {"succeeded", "failed"} => tasks'[t] = tasks[t]]_vars
    /\ [][tasks' # tasks =>
            UNCHANGED <<bookings, payments, req, delayed, saves, nops, last>>]_vars
    /\ \A t \in TaskNames :
          (tasks[t].state = "queued") ~> (tasks[t].state \in {"succeeded", "failed"})

\* the sender has failed four times: the task has given up
C23_Witness ==
    \E t \in TaskNames :
        /\ tasks[t].state = "failed"
        /\ tasks[t].attempts = 4
        /\ tasks[t].retries = 3

\* C24: the delays before the retries of a task are 60, 120, 240 seconds, in
\* that order: 60 * 2^k before retry k, strictly increasing.
C24_BackoffDoubles ==
    \A t \in TaskNames :
        LET cds == tasks[t].countdowns
        IN /\ Len(cds) = tasks[t].retries
           /\ \A k \in 1..Len(cds) : cds[k] = <<60, 120, 240>>[k]
           /\ \A k \in 1..(Len(cds) - 1) : cds[k] < cds[k + 1]

\* a task has been scheduled again three times
C24_Witness ==
    \E t \in TaskNames : tasks[t].countdowns = <<60, 120, 240>>

\* C25: an initiation by the guest that writes nothing itself (the gateway
\* call raises, or the status is not pending) leaves the Payment the booking
\* already has exactly as it was, or leaves the single pending Payment it has
\* created for a booking that had none; after any initiation by the guest the
\* booking has exactly one Payment.
C25_EnsurePaymentIdempotent ==
    [][\/ last'.op # "initiate_payment"
       \/ \A actor \in Users, b \in BookingIds, outcome \in InitiateOutcomes :
             InitiatedByGuest(actor, b, outcome)
                 => /\ payment_rows'[b] = 1
                    /\ payments'[b].exists
                    /\ (outcome.kind \in {"value_error", "exception"}
                        \/ (~Initiable(payments'[b].status) /\ ~last'.gateway))
                           => IF payments[b].exists
                              THEN payments'[b] = payments[b]
                              ELSE /\ payments'[b].status = "pending"
                                   /\ payments'[b].amount = bookings[b].total_price
                                   /\ payments'[b].chapa_reference = None]_vars

\* an initiation has failed on a raised error and the Payment still holds the
\* reference of the initiation before it
C25_Witness ==
    /\ last.op = "initiate_payment"
    /\ last.body = "Unexpected error"
    /\ payments[last.b].chapa_reference = "CK1"
    /\ payment_rows[last.b] = 1

\* C26: the database never holds more than one Payment row for a Booking, also
\* when two initiations have both found no Payment and both insert one.
C26_AtMostOnePayment ==
    \A b \in BookingIds : payment_rows[b] <= 1

\* two initiations found no Payment; the insert of the second was refused
C26_Witness ==
    /\ last.op = "initiate_payment"
    /\ last.body = "IntegrityError"
    /\ payment_rows[last.b] = 1
    /\ payments[last.b].exists

\* C27: a step that changes the status of a Booking is a cancel or a confirm,
\* never an initiation or a verification; a step that changes a Payment is a
\* creation, an initiation or a verification, never a cancel or a confirm.
C27_StatusesHaveOneWriter ==
    [][\/ (bookings' = bookings /\ payments' = payments)
       \/ /\ (\E b \in BookingIds :
                 bookings[b].exists /\ bookings'[b].status # bookings[b].status)
                => (nops' # nops /\ last'.op \in {"cancel", "confirm"})
          /\ (payments' # payments)
                => /\ last'.op \in {"create", "initiate_payment", "verify_status",
                                    "verify"}
                   /\ \A b \in BookingIds :
                         bookings[b].exists
                             => bookings'[b].status = bookings[b].status]_vars

\* the booking of a completed Payment was cancelled: the Payment is still
\* completed
C27_Witness ==
    /\ last.op = "cancel"
    /\ last.http = 200
    /\ bookings[last.b].status = "cancelled"
    /\ payments[last.b].status = "completed"

\* C28: a response of the callback carries the outcome only (completed,
\* failed, pending, not found or an error) and no payload: no amount, no
\* currency, no transaction id, no payment id.
C28_CallbackCarriesOutcomeOnly ==
    (last.op = "verify") =>
        /\ last.data = NoData
        /\ last.body \in {"completed", "failed", "pending", "Payment not found",
                          "tx_ref parameter is required", "error"}

\* the callback has completed a Payment: the row holds the transaction id, the
\* response does not
C28_Witness ==
    /\ last.op = "verify"
    /\ last.body = "completed"
    /\ payments[last.b].transaction_id = "TX1"
    /\ last.data.transaction_id = None

\* C29: in every state a Payment is completed exactly when it holds a
\* transaction_id.
C29_CompletedIffTransactionId ==
    \A b \in BookingIds :
        payments[b].exists =>
            (payments[b].status = "completed" <=> payments[b].transaction_id # None)

\* C30: once a Payment holds a chapa_reference no request changes it, a second
\* successful initiation of the still pending Payment included.
C30_ReferenceSetOnce ==
    [][\A b \in BookingIds :
          payments[b].chapa_reference # None
              => payments'[b].chapa_reference = payments[b].chapa_reference]_vars

\* C31: a booking requested with an explicit total_price, 0 included, is
\* stored with exactly that total_price.
C31_SuppliedPriceIsStored ==
    [][\/ bookings' = bookings
       \/ \A actor \in Guests, listing_id \in ListingIds,
             check_in \in Dates, check_out \in Dates, supplied \in SuppliedPrices :
              (/\ supplied # << >>
               /\ CreateBooking(actor, listing_id, check_in, check_out, supplied))
                  => bookings'[NextBookingId].total_price = supplied[1]]_vars

\* C32: a poll on a stored Payment that holds no chapa_reference, or by a user
\* who is neither the guest nor the host, is refused: no gateway call is
\* begun, no Payment is changed and no notification is queued.
C32_PollRefusedBeforeGateway ==
    [][\/ last'.op # "verify_status"
       \/ \A w \in Workers, actor \in Users, b \in BookingIds :
             (/\ payments[b].exists
              /\ \/ payments[b].chapa_reference = None
                 \/ actor \notin {bookings[b].guest, ListingHost(bookings[b].listing)}
              /\ VerifyStatusBegin(w, actor, b))
                 => /\ last'.http >= 400
                    /\ ~last'.gateway
                    /\ UNCHANGED <<req, payments, delayed, saves>>]_vars

\* the guest has polled a Payment that was never initiated
C32_Witness ==
    /\ last.op = "verify_status"
    /\ last.body = "not initiated"
    /\ payments[last.b].status = "pending"
    /\ payments[last.b].chapa_reference = None
    /\ \A w \in Workers : req[w].pc = "idle"

C34_SenderAttemptsExactlyOnce ==
    [][\A s \in SenderNames :
          mail'[s].calls = mail[s].calls + 1
              => /\ mail'[s].result \in {"True", "False"}
                 /\ mail'[s].result = "True" <=> mail'[s].handed = mail[s].handed + 1
                 /\ mail'[s].attempts = mail[s].attempts + 1]_vars

\* C34: a call of a synchronous sender does not raise and returns True exactly
\* when the backend took the mail; it makes one send attempt when the message
\* was built and none when building it raised, and never a second one.
C34_SenderAttemptsAtMostOnce ==
    [][\A s \in SenderNames, prepared \in BOOLEAN, backend \in SendMailOutcomes :
          Sender(s, prepared, backend)
              => /\ mail'[s].result \in {"True", "False"}
                 /\ mail'[s].result = "True" <=> mail'[s].handed = mail[s].handed + 1
                 /\ mail'[s].result = "True" <=> (prepared /\ backend = "sent")
                 /\ mail'[s].attempts = mail[s].attempts + (IF prepared THEN 1 ELSE 0)
                 /\ mail'[s].attempts <= mail[s].attempts + 1]_vars

\* a sender was called three times: the message could not be built once, the
\* backend took it once and raised once, and the last call returned False
C34_Witness ==
    \E s \in SenderNames :
        /\ mail[s].calls = 3
        /\ mail[s].attempts = 2
        /\ mail[s].handed = 1
        /\ mail[s].result = "False"
====
